---- MODULE Spec2Model ----
(***************************************************************************)
(* Model of the n8n node "Yandex Disk CSV: Append Row"                     *)
(* (nodes/YandexDiskCsvAppend.node.ts) and of the remote file it rewrites. *)
(*                                                                         *)
(* Text is a sequence of one-character strings, so that serialisation,     *)
(* parsing and the line-terminator handling are computed, not assumed.     *)
(* A record (item.json) is a sequence of <<key, value>> pairs in           *)
(* Object.keys order.  Up to two invocations of execute() run against one  *)
(* remote file; every await of the code is one atomic step.                *)
(***************************************************************************)
EXTENDS Integers, Sequences, FiniteSets, TLC

\* ------------------------------------------------------------------ bounds
\* The longest list of input items an invocation is given.
MaxItems == 2

Procs == {1, 2}

\* ------------------------------------------------------------- characters
NL == "\n"
CR == "\r"
TAB == "\t"
QUOTE == "\""
SPACE == " "

WhiteSpace == {SPACE, TAB, NL, CR}

\* ----------------------------------------------------------- JS values
Undefined == [t |-> "undefined", n |-> 0, s |-> <<>>]
Null == [t |-> "null", n |-> 0, s |-> <<>>]
Num(k) == [t |-> "number", n |-> k, s |-> <<>>]
Str(chars) == [t |-> "string", n |-> 0, s |-> chars]
Obj(chars) == [t |-> "object", n |-> 0, s |-> chars]

\* string[] | null : <<>> is null, <<h>> is the array h
NoHeader == <<>>
Some(h) == <<h>>

\* ------------------------------------------------------ string helpers
Digit(k) == <<"0", "1", "2", "3", "4", "5", "6", "7", "8", "9">>[k + 1]

RECURSIVE NumToString(_)
\* String(v) of a non-negative integer
NumToString(k) ==
  IF k < 10 THEN <<Digit(k)>> ELSE NumToString(k \div 10) \o <<Digit(k % 10)>>

\* s.endsWith(c)
EndsWith(s, c) == Len(s) > 0 /\ s[Len(s)] = c

\* a faulty ensureTrailingNewline: the terminator is added unconditionally
ensureTrailingNewlineAlways(s) == s \o <<NL>>

\* ensureTrailingNewline(s)
ensureTrailingNewline(s) == IF EndsWith(s, NL) THEN s ELSE s \o <<NL>>

RECURSIVE TrimStart(_)
TrimStart(s) ==
  IF s # <<>> /\ Head(s) \in WhiteSpace THEN TrimStart(Tail(s)) ELSE s

RECURSIVE TrimEnd(_)
TrimEnd(s) ==
  IF s # <<>> /\ s[Len(s)] \in WhiteSpace
  THEN TrimEnd(SubSeq(s, 1, Len(s) - 1)) ELSE s

\* String.prototype.trim
Trim(s) == TrimEnd(TrimStart(s))

RECURSIVE SplitFrom(_, _, _, _)
SplitFrom(s, i, d, cur) ==
  IF i > Len(s) THEN <<cur>>
  ELSE IF s[i] = d THEN <<cur>> \o SplitFrom(s, i + 1, d, <<>>)
  ELSE SplitFrom(s, i + 1, d, Append(cur, s[i]))

\* s.split(d) for a one-character separator
Split(s, d) == SplitFrom(s, 1, d, <<>>)

RECURSIVE FilterNonEmptyFrom(_, _)
FilterNonEmptyFrom(ss, k) ==
  IF k > Len(ss) THEN <<>>
  ELSE (IF Len(ss[k]) > 0 THEN <<ss[k]>> ELSE <<>>) \o FilterNonEmptyFrom(ss, k + 1)

\* ss.filter((s) => s.length > 0)
FilterNonEmpty(ss) == FilterNonEmptyFrom(ss, 1)

\* ss.map((s) => s.trim())
TrimAll(ss) == [k \in 1..Len(ss) |-> Trim(ss[k])]

\* columnsCsv.split(',').map(trim).filter(nonempty)
ExplicitColumns(columnsCsv) == FilterNonEmpty(TrimAll(Split(columnsCsv, ",")))

RECURSIVE IndexOf(_, _, _)
\* the first position >= i of c in s, or 0
IndexOf(s, c, i) ==
  IF i > Len(s) THEN 0 ELSE IF s[i] = c THEN i ELSE IndexOf(s, c, i + 1)

\* currentCsv.split(/\r?\n/)[0]
FirstLine(s) ==
  LET k == IndexOf(s, NL, 1)
  IN IF k = 0 THEN s
     ELSE IF k > 1 /\ s[k - 1] = CR THEN SubSeq(s, 1, k - 2)
     ELSE SubSeq(s, 1, k - 1)

\* ------------------------------------------------------------ csv-parse
ParseError == [ok |-> FALSE, records |-> <<>>]
ParseOk(recs) == [ok |-> TRUE, records |-> recs]

RECURSIVE ParseFrom(_, _, _, _, _, _)
\* One record of `line` (which holds no record delimiter), from position i:
\* st is "start" (at the start of a field), "plain" (in an unquoted field),
\* "quoted" (inside quotes) or "closed" (after a closing quote).
ParseFrom(line, i, d, field, rec, st) ==
  IF i > Len(line)
  THEN IF st = "quoted" THEN ParseError ELSE ParseOk(<<Append(rec, field)>>)
  ELSE
    LET c == line[i] IN
    CASE st = "quoted" ->
           IF c = QUOTE
           THEN IF i < Len(line) /\ line[i + 1] = QUOTE
                THEN ParseFrom(line, i + 2, d, Append(field, QUOTE), rec, "quoted")
                ELSE ParseFrom(line, i + 1, d, field, rec, "closed")
           ELSE ParseFrom(line, i + 1, d, Append(field, c), rec, "quoted")
      [] st = "closed" ->
           IF c = d
           THEN ParseFrom(line, i + 1, d, <<>>, Append(rec, field), "start")
           ELSE ParseError
      [] OTHER ->
           IF c = d
           THEN ParseFrom(line, i + 1, d, <<>>, Append(rec, field), "start")
           ELSE IF c = QUOTE
           THEN IF st = "start"
                THEN ParseFrom(line, i + 1, d, field, rec, "quoted")
                ELSE ParseError
           ELSE ParseFrom(line, i + 1, d, Append(field, c), rec, "plain")

\* parse(line, { delimiter, relax_column_count: true }) : string[][]
parse(line, d) ==
  IF line = <<>> THEN ParseOk(<<>>) ELSE ParseFrom(line, 1, d, <<>>, <<>>, "start")

\* -------------------------------------------------------- csv-stringify
RECURSIVE DoubleQuotes(_)
DoubleQuotes(s) ==
  IF s = <<>> THEN <<>>
  ELSE IF Head(s) = QUOTE THEN <<QUOTE, QUOTE>> \o DoubleQuotes(Tail(s))
  ELSE <<Head(s)>> \o DoubleQuotes(Tail(s))

\* one field: quoted when it holds the delimiter, a quote or the record delimiter
StringifyField(f, d) ==
  IF \E k \in 1..Len(f) : f[k] \in {d, QUOTE, NL}
  THEN <<QUOTE>> \o DoubleQuotes(f) \o <<QUOTE>>
  ELSE f

RECURSIVE JoinFields(_, _)
JoinFields(fs, d) ==
  IF fs = <<>> THEN <<>>
  ELSE IF Len(fs) = 1 THEN StringifyField(fs[1], d)
  ELSE StringifyField(fs[1], d) \o <<d>> \o JoinFields(Tail(fs), d)

RECURSIVE stringify(_, _)
\* stringify(rows, { delimiter, record_delimiter: '\n' })
stringify(rs, d) ==
  IF rs = <<>> THEN <<>>
  ELSE JoinFields(Head(rs), d) \o <<NL>> \o stringify(Tail(rs), d)

\* ------------------------------------------------------------- records
RECURSIVE ObjectKeysFrom(_, _)
ObjectKeysFrom(obj, i) ==
  IF i > Len(obj) THEN <<>> ELSE <<obj[i][1]>> \o ObjectKeysFrom(obj, i + 1)

\* Object.keys(obj)
ObjectKeys(obj) == ObjectKeysFrom(obj, 1)

RECURSIVE GetFrom(_, _, _)
GetFrom(obj, key, i) ==
  IF i > Len(obj) THEN Undefined
  ELSE IF obj[i][1] = key THEN obj[i][2] ELSE GetFrom(obj, key, i + 1)

\* obj[key]
Get(obj, key) == GetFrom(obj, key, 1)

\* v ?? ''
OrEmpty(v) == IF v.t \in {"undefined", "null"} THEN Str(<<>>) ELSE v

\* String(v)
StringOf(v) ==
  CASE v.t = "number" -> NumToString(v.n)
    [] v.t = "string" -> v.s
    [] v.t = "null" -> <<"n", "u", "l", "l">>
    [] v.t = "undefined" -> <<"u", "n", "d", "e", "f", "i", "n", "e", "d">>
    [] OTHER -> <<"[", "o", "b", "j", "e", "c", "t", " ", "O", "b", "j", "e", "c", "t", "]">>

\* v === null || v === undefined ? '' : String(v)
Cell(v) == IF v.t \in {"undefined", "null"} THEN <<>> ELSE StringOf(v)

\* columns.map((key) => obj[key] ?? '') followed by the stringification of each value
RowOf(obj, columns) ==
  [k \in 1..Len(columns) |-> Cell(OrEmpty(Get(obj, columns[k])))]

\* a faulty header derivation: the header is taken anew from every record
DeriveHeaderEveryRecord(hdr, obj) == Some(ObjectKeys(obj))

\* if (!headerRow) headerRow = Object.keys(obj)
DeriveHeader(hdr, obj) == IF hdr = NoHeader THEN Some(ObjectKeys(obj)) ELSE hdr

\* one row of the loop: the header row in mode byHeader, else the explicit columns
RowFor(obj, mode, columns, hdr) ==
  IF mode = "byHeader" THEN RowOf(obj, hdr[1]) ELSE RowOf(obj, columns)

\* for (let i = 0; i < items.length; i++): the body runs, or the loop is left
LoopTest(k, its) == IF k <= Len(its) THEN "MAP_RECORDS" ELSE "COMPOSE"

\* a faulty header condition: hasHeader is not consulted
WritesHeaderIgnoringHasHeader(dl, c) ==
  dl = "null" /\ c.createIfMissing /\ c.writeHeaderOnCreate

\* if (!dlLinkResp && createIfMissing) if (hasHeader && writeHeaderOnCreate)
WritesHeader(dl, c) ==
  dl = "null" /\ c.createIfMissing /\ c.hasHeader /\ c.writeHeaderOnCreate

\* the CSV fragment to append: the rows, after the header row when one is written
Compose(dl, c, columns, hdr, rws) ==
  LET appendCsv == stringify(rws, c.delimiter)
      header == IF c.mappingMode = "byHeader"
                THEN (IF hdr = NoHeader THEN <<>> ELSE hdr[1])
                ELSE columns
  IN IF WritesHeader(dl, c)
     THEN stringify(<<header>>, c.delimiter) \o appendCsv
     ELSE appendCsv

\* a faulty merge: the terminator is added although nothing is appended
MergeAlwaysTerminates(currentCsv, appendCsv) ==
  IF currentCsv # <<>> THEN ensureTrailingNewline(currentCsv) \o appendCsv
  ELSE appendCsv

\* a faulty merge: the fetched content is dropped
MergeDropsCurrent(currentCsv, appendCsv) == appendCsv

\* finalCsv: the fetched content followed by the fragment
Merge(currentCsv, appendCsv) ==
  IF currentCsv # <<>> /\ appendCsv # <<>>
  THEN ensureTrailingNewline(currentCsv) \o appendCsv
  ELSE IF currentCsv = <<>> THEN appendCsv
  ELSE currentCsv

\* the field added to every returned item
MetaKey == <<"_", "y", "d", "i", "s", "k">>

\* a faulty output: only the first item is echoed
PrepareOutputFirstOnly(its, filePath) ==
  [i \in 1..(IF Len(its) > 0 THEN 1 ELSE 0) |->
     Append(its[i], <<MetaKey, Obj(filePath)>>)]

\* items.map((it) => ({ json: { ...it.json, _ydisk: { filePath } } }))
PrepareOutput(its, filePath) ==
  [i \in 1..Len(its) |->
     Append(its[i], <<MetaKey, Obj(filePath)>>)]

\* a faulty Authorization header: another scheme
HeadersAuthBearer(token) == "Bearer " \o token

\* headersAuth.Authorization
HeadersAuth(token) == "OAuth " \o token

\* a request without an Authorization header
NoAuth == ""

\* a faulty catch: any failure is tolerated when creation is allowed
CatchDownloadErrorAnyStatus(status, createIfMissing) ==
  IF createIfMissing THEN "null" ELSE "throw"

\* a faulty catch: a 404 is tolerated whatever createIfMissing says
CatchDownloadErrorAny404(status, createIfMissing) ==
  IF status = 404 THEN "null" ELSE "throw"

\* .catch: null for a 404 when creation is allowed, otherwise the error is rethrown
CatchDownloadError(status, createIfMissing) ==
  IF status = 404 /\ createIfMissing THEN "null" ELSE "throw"

\* a faulty test: the content is fetched whatever the resolution returned
HasHrefAlways(dl) == TRUE

\* dlLinkResp?.body?.href
HasHref(dl) == dl = "href"

\* the header row of the fetched content
DiscoverHeader(csv, c) ==
  IF c.hasHeader /\ Trim(csv) # <<>>
  THEN LET parsed == parse(FirstLine(csv), c.delimiter)
       IN IF ~parsed.ok THEN [ok |-> FALSE, header |-> NoHeader]
          ELSE [ok |-> TRUE,
                header |-> IF parsed.records = <<>> THEN NoHeader
                           ELSE Some(parsed.records[1])]
  ELSE [ok |-> TRUE, header |-> NoHeader]

\* ---------------------------------------------------------------- inputs
KeyA == <<"a">>
KeyB == <<"b">>

\* item.json of the input items
RecordPool ==
  { << <<KeyA, Num(1)>>, <<KeyB, Num(2)>> >>,
    << <<KeyB, Str(<<"x", ",", "y">>)>>, <<KeyA, Null>> >>,
    << <<KeyA, Str(<<"x">>)>> >>,
    << >> }

RECURSIVE ListsUpTo(_, _)
\* the lists of at most n elements of S
ListsUpTo(S, n) ==
  IF n = 0 THEN {<<>>}
  ELSE LET shorter == ListsUpTo(S, n - 1)
       IN shorter \cup {Append(l, x) : l \in {m \in shorter : Len(m) = n - 1}, x \in S}

\* the options of the Delimiter parameter
Delimiters == {",", ";", TAB}

\* the Columns parameter, shown in mode byColumns only (default '')
ColumnsPool == { <<"b", ",", "a">>, <<SPACE, "a", SPACE, ",", ",", "c">> }

Tokens == {"t1", "t2"}

FilePath == <<"d", "i", "s", "k", ":", "/", "f">>

Configs ==
  { [filePath |-> FilePath, delimiter |-> d, hasHeader |-> hh, mappingMode |-> m,
     createIfMissing |-> cim, writeHeaderOnCreate |-> whc, columnsCsv |-> cols,
     token |-> tok] :
      d \in Delimiters, hh \in BOOLEAN, cim \in BOOLEAN, whc \in BOOLEAN,
      tok \in Tokens, m \in {"byHeader", "byColumns"}, cols \in ColumnsPool \cup {<<>>} }

\* the remote file: absent, or present with its content
Absent == [exists |-> FALSE, content |-> <<>>]
File(text) == [exists |-> TRUE, content |-> text]

RemotePool ==
  { Absent,
    File(<<>>),
    File(<<"a", ",", "b", NL, "x", ",", "y", NL>>),
    File(<<"a", ",", "b", NL, "x", ",", "y">>),
    File(<<"b", ";", "a", CR, NL>>),
    File(<<"a", QUOTE, "b", NL>>),
    File(<<NL, "x", NL>>) }

\* what execute() throws: the step that failed and the status it got
NoError == [from |-> "none", status |-> 0]
Error(from, status) == [from |-> from, status |-> status]

\* ----------------------------------------------------------------- state
VARIABLES
  cfg,          \* the node parameters and the credential, read once per run
  remote,       \* the file at filePath on the disk
  prior,        \* remote at the start (history, never read by an action)
  calls,        \* the requests sent so far, in order, with their outcome (history)
  pc,           \* where each invocation of execute() is
  items,        \* getInputData()
  explicitColumns, \* the Columns parameter, split, trimmed and filtered
  i,            \* the loop index over items, counted from 1
  dlLinkResp,   \* "none" before the call, "href" or "null" after it
  currentCsv,
  headerRow,
  rows,
  appendCsv,
  finalCsv,
  err,          \* the error execute() threw
  output        \* what execute() returned

vars == <<cfg, remote, prior, calls, pc, items, explicitColumns, i, dlLinkResp, currentCsv, headerRow,
          rows, appendCsv, finalCsv, err, output>>

Locals(c, r, its, pcs) ==
  /\ cfg = c
  /\ remote = r
  /\ prior = r
  /\ calls = <<>>
  /\ pc = pcs
  /\ items = its
  /\ explicitColumns = ExplicitColumns(c.columnsCsv)
  /\ i = [p \in Procs |-> 1]
  /\ dlLinkResp = [p \in Procs |-> "none"]
  /\ currentCsv = [p \in Procs |-> <<>>]
  /\ headerRow = [p \in Procs |-> NoHeader]
  /\ rows = [p \in Procs |-> <<>>]
  /\ appendCsv = [p \in Procs |-> <<>>]
  /\ finalCsv = [p \in Procs |-> <<>>]
  /\ err = [p \in Procs |-> NoError]
  /\ output = [p \in Procs |-> <<>>]

\* one invocation of execute(), its parameters and credential read (lines 105-123)
Init ==
  \E c \in Configs, r \in RemotePool, its \in ListsUpTo(RecordPool, MaxItems) :
    /\ (c.mappingMode = "byHeader") = (c.columnsCsv = <<>>)
    /\ Locals(c, r, [p \in Procs |-> IF p = 1 THEN its ELSE <<>>],
              [p \in Procs |-> IF p = 1 THEN "START" ELSE "IDLE"])

Call(p, kind, auth, status, body) ==
  [p |-> p, kind |-> kind, auth |-> auth, status |-> status, body |-> body]

Throw(p, e) ==
  /\ pc' = [pc EXCEPT ![p] = "FAILED"]
  /\ err' = [err EXCEPT ![p] = e]

\* the answers the disk can give to GET /resources/download
DownloadStatuses(r) == (IF r.exists THEN {200} ELSE {404}) \cup {500}

\* lines 126-137: GET /resources/download
ResolveDownload(p) ==
  /\ pc[p] = "START"
  /\ \E status \in DownloadStatuses(remote) :
       LET resp == IF status = 200 THEN "href"
                   ELSE CatchDownloadError(status, cfg.createIfMissing)
       IN /\ calls' = Append(calls, Call(p, "RESOLVE_DOWNLOAD", HeadersAuth(cfg.token),
                                         status, <<>>))
          /\ IF resp = "throw"
             THEN /\ Throw(p, Error("RESOLVE_DOWNLOAD", status))
                  /\ UNCHANGED dlLinkResp
             ELSE /\ dlLinkResp' = [dlLinkResp EXCEPT ![p] = resp]
                  /\ pc' = [pc EXCEPT ![p] = IF HasHref(resp) THEN "FETCH_CONTENT"
                                             ELSE LoopTest(i[p], items[p])]
                  /\ UNCHANGED err
  /\ UNCHANGED <<cfg, remote, prior, items, explicitColumns, i, currentCsv, headerRow,
                 rows, appendCsv, finalCsv, output>>

\* lines 142-150: GET the download href, then the header of the first line
FetchContent(p) ==
  /\ pc[p] = "FETCH_CONTENT"
  /\ \E status \in (IF remote.exists THEN {200} ELSE {}) \cup {500} :
       /\ calls' = Append(calls, Call(p, "FETCH_CONTENT", NoAuth, status, <<>>))
       /\ IF status # 200
          THEN /\ Throw(p, Error("FETCH_CONTENT", status))
               /\ UNCHANGED <<currentCsv, headerRow>>
          ELSE LET found == DiscoverHeader(remote.content, cfg)
               IN /\ currentCsv' = [currentCsv EXCEPT ![p] = remote.content]
                  /\ IF found.ok
                     THEN /\ headerRow' = [headerRow EXCEPT ![p] = found.header]
                          /\ pc' = [pc EXCEPT ![p] = LoopTest(i[p], items[p])]
                          /\ UNCHANGED err
                     ELSE /\ Throw(p, Error("PARSE_HEADER", 0))
                          /\ UNCHANGED headerRow
  /\ UNCHANGED <<cfg, remote, prior, items, explicitColumns, i, dlLinkResp, rows, appendCsv, finalCsv,
                 output>>

\* lines 154-167: one turn of the loop, the row of items[i]
MapRecord(p) ==
  /\ pc[p] = "MAP_RECORDS"
  /\ \E obj \in {items[p][i[p]]} :
       \E hdr \in {IF cfg.mappingMode = "byHeader" THEN DeriveHeader(headerRow[p], obj)
                   ELSE headerRow[p]} :
         \E row \in {RowFor(obj, cfg.mappingMode, explicitColumns, hdr)} :
           /\ headerRow' = [headerRow EXCEPT ![p] = hdr]
           /\ rows' = [rows EXCEPT ![p] = Append(@, row)]
  /\ i' = [i EXCEPT ![p] = @ + 1]
  /\ pc' = [pc EXCEPT ![p] = LoopTest(i[p] + 1, items[p])]
  /\ UNCHANGED <<cfg, remote, prior, calls, items, explicitColumns, dlLinkResp,
                 currentCsv, appendCsv, finalCsv, err, output>>

\* lines 169-184: the fragment, with the header row of a new file, and the merged file
ComposeMerge(p) ==
  /\ pc[p] = "COMPOSE"
  /\ \E fragment \in {Compose(dlLinkResp[p], cfg, explicitColumns, headerRow[p], rows[p])} :
       /\ appendCsv' = [appendCsv EXCEPT ![p] = fragment]
       /\ finalCsv' = [finalCsv EXCEPT ![p] = Merge(currentCsv[p], fragment)]
  /\ pc' = [pc EXCEPT ![p] = "RESOLVE_UPLOAD"]
  /\ UNCHANGED <<cfg, remote, prior, calls, items, explicitColumns, i, dlLinkResp, currentCsv, headerRow,
                 rows, err, output>>

\* lines 187-194: GET /resources/upload
ResolveUpload(p) ==
  /\ pc[p] = "RESOLVE_UPLOAD"
  /\ \E status \in {200, 500} :
       /\ calls' = Append(calls, Call(p, "RESOLVE_UPLOAD", HeadersAuth(cfg.token),
                                      status, <<>>))
       /\ IF status = 200
          THEN pc' = [pc EXCEPT ![p] = "UPLOAD"] /\ UNCHANGED err
          ELSE Throw(p, Error("RESOLVE_UPLOAD", status))
  /\ UNCHANGED <<cfg, remote, prior, items, explicitColumns, i, dlLinkResp, currentCsv, headerRow, rows,
                 appendCsv, finalCsv, output>>

\* lines 196-204: PUT the merged file to the upload href, then return the items
Upload(p) ==
  /\ pc[p] = "UPLOAD"
  /\ \E status \in {201, 500} :
       /\ calls' = Append(calls, Call(p, "UPLOAD", NoAuth, status, finalCsv[p]))
       /\ IF status = 201
          THEN /\ remote' = File(finalCsv[p])
               /\ output' = [output EXCEPT ![p] = PrepareOutput(items[p], cfg.filePath)]
               /\ pc' = [pc EXCEPT ![p] = "DONE"]
               /\ UNCHANGED err
          ELSE /\ Throw(p, Error("UPLOAD", status))
               /\ UNCHANGED <<remote, output>>
  /\ UNCHANGED <<cfg, prior, items, explicitColumns, i, dlLinkResp, currentCsv, headerRow, rows, appendCsv,
                 finalCsv>>

Next ==
  \E p \in Procs :
    \/ ResolveDownload(p)
    \/ FetchContent(p)
    \/ MapRecord(p)
    \/ ComposeMerge(p)
    \/ ResolveUpload(p)
    \/ Upload(p)

Spec == Init /\ [][Next]_vars

\* two invocations of the node on the same path, one item each
RaceItems ==
  [p \in Procs |-> IF p = 1 THEN << << <<KeyA, Num(1)>>, <<KeyB, Num(2)>> >> >>
                   ELSE << << <<KeyA, Str(<<"x">>)>> >> >>]

RaceInit ==
  \E c \in Configs, r \in RemotePool :
    /\ c.delimiter = "," /\ c.token = "t1" /\ c.mappingMode = "byHeader"
    /\ c.columnsCsv = <<>> /\ c.createIfMissing
    /\ r \in {Absent, File(<<"a", ",", "b", NL, "x", ",", "y", NL>>),
              File(<<"a", ",", "b", NL, "x", ",", "y">>)}
    /\ Locals(c, r, RaceItems, [p \in Procs |-> "START"])

RaceSpec == RaceInit /\ [][Next]_vars

\* ================================================================ claims
IsPrefix(a, b) == Len(a) <= Len(b) /\ SubSeq(b, 1, Len(a)) = a

\* the requests of invocation p, in order
CallsOf(p) == SelectSeq(calls, LAMBDA c : c.p = p)
KindsOf(p) == [n \in 1..Len(CallsOf(p)) |-> CallsOf(p)[n].kind]
Issued(p, kind) == \E n \in 1..Len(calls) : calls[n].p = p /\ calls[n].kind = kind

Succeeded(c) == c.status \in {200, 201}
\* the not-found that is taken as "no file yet"
Tolerated(c) == c.kind = "RESOLVE_DOWNLOAD" /\ c.status = 404 /\ cfg.createIfMissing

\* the mapping, the fragment and the merge have run
Mapped(p) ==
  \/ pc[p] \in {"RESOLVE_UPLOAD", "UPLOAD", "DONE"}
  \/ pc[p] = "FAILED" /\ err[p].from \in {"RESOLVE_UPLOAD", "UPLOAD"}

\* C1: a 404 from download resolution with createIfMissing false fails the
\* invocation with that not-found error; resolve-upload and the PUT are never sent.
C1_NotFoundAborts ==
  \A p \in Procs :
    (/\ ~cfg.createIfMissing
     /\ \E n \in 1..Len(calls) :
          calls[n].p = p /\ calls[n].kind = "RESOLVE_DOWNLOAD" /\ calls[n].status = 404)
    => /\ pc[p] = "FAILED"
       /\ err[p] = Error("RESOLVE_DOWNLOAD", 404)
       /\ KindsOf(p) = <<"RESOLVE_DOWNLOAD">>
       /\ ~Issued(p, "RESOLVE_UPLOAD") /\ ~Issued(p, "UPLOAD")
       /\ output[p] = <<>>

C1_Witness ==
  /\ ~cfg.createIfMissing /\ ~remote.exists
  /\ pc[1] = "FAILED" /\ err[1].status = 404 /\ Len(items[1]) > 0

\* the header line of the content p fetched does not parse
HeaderUnparsable(p) ==
  /\ Issued(p, "FETCH_CONTENT") /\ CallsOf(p)[2].status = 200
  /\ cfg.hasHeader /\ Trim(currentCsv[p]) # <<>>
  /\ ~parse(FirstLine(currentCsv[p]), cfg.delimiter).ok

\* C2: a failure of any step before the PUT (a download resolution that fails
\* other than by the tolerated 404, the content fetch, the header parse, the
\* upload resolution) ends the invocation FAILED: the failed step is its last,
\* no PUT is sent, nothing is returned and the remote file is as it was.
C2_FailFast ==
  \A p \in Procs :
    LET cs == CallsOf(p)
        aborted == /\ pc[p] = "FAILED"
                   /\ ~Issued(p, "UPLOAD")
                   /\ remote = prior
                   /\ output[p] = <<>>
    IN /\ \A n \in 1..Len(cs) :
            (cs[n].kind # "UPLOAD" /\ ~Succeeded(cs[n]) /\ ~Tolerated(cs[n]))
            => (aborted /\ n = Len(cs) /\ err[p] = Error(cs[n].kind, cs[n].status))
       /\ HeaderUnparsable(p)
            => (aborted /\ Len(cs) = 2 /\ err[p].from = "PARSE_HEADER")

C2_Witness ==
  /\ pc[1] = "FAILED" /\ err[1].from = "RESOLVE_UPLOAD"
  /\ remote.exists /\ finalCsv[1] # remote.content

\* the body the merge must give for fetched content c and fragment a
Joined(c, a) == IF c[Len(c)] = NL THEN c \o a ELSE c \o <<NL>> \o a

\* C3 as stated: for every non-empty fetched content and every fragment, the
\* PUT body is the content, one terminator if it lacks one, then the fragment.
C3_MergeAnyFragment ==
  \A n \in 1..Len(calls) :
    (calls[n].kind = "UPLOAD" /\ currentCsv[calls[n].p] # <<>>)
    => calls[n].body = Joined(currentCsv[calls[n].p], appendCsv[calls[n].p])

\* C3 amended: for every non-empty fetched content and every non-empty
\* fragment, the PUT body is the content, one terminator if it lacks one (never
\* a second), then the fragment; the fetched content is always a prefix of the body.
C3_MergeNonEmptyFragment ==
  \A n \in 1..Len(calls) :
    LET q == calls[n].p IN
    calls[n].kind = "UPLOAD"
    => /\ IsPrefix(currentCsv[q], calls[n].body)
       /\ ensureTrailingNewline(ensureTrailingNewline(currentCsv[q]))
            = ensureTrailingNewline(currentCsv[q])
       /\ (currentCsv[q] # <<>> /\ appendCsv[q] # <<>>)
          => calls[n].body = Joined(currentCsv[q], appendCsv[q])

C3_Witness ==
  \E n \in 1..Len(calls) :
    /\ calls[n].kind = "UPLOAD" /\ calls[n].p = 1
    /\ currentCsv[1] # <<>> /\ currentCsv[1][Len(currentCsv[1])] # NL
    /\ appendCsv[1] # <<>>
    /\ calls[n].body = currentCsv[1] \o <<NL>> \o appendCsv[1]

\* the header execute() would write: the header row, or the explicit columns
HeaderFor(p) ==
  IF cfg.mappingMode = "byHeader"
  THEN (IF headerRow[p] = NoHeader THEN <<>> ELSE headerRow[p][1])
  ELSE explicitColumns

\* download resolution answered not-found
WasAbsent(p) ==
  \E n \in 1..Len(calls) :
    calls[n].p = p /\ calls[n].kind = "RESOLVE_DOWNLOAD" /\ calls[n].status = 404

\* C4: the fragment starts with a serialized header row exactly when download
\* resolution answered not-found and createIfMissing, hasHeader and
\* writeHeaderOnCreate are all true; otherwise it is the serialized rows alone.
C4_HeaderEmission ==
  \A p \in Procs :
    Mapped(p)
    => appendCsv[p] =
         (IF /\ WasAbsent(p) /\ cfg.createIfMissing
             /\ cfg.hasHeader /\ cfg.writeHeaderOnCreate
          THEN stringify(<<HeaderFor(p)>>, cfg.delimiter) ELSE <<>>)
         \o stringify(rows[p], cfg.delimiter)

C4_Witness ==
  /\ Mapped(1) /\ WasAbsent(1) /\ cfg.hasHeader /\ cfg.writeHeaderOnCreate
  /\ cfg.mappingMode = "byHeader" /\ cfg.delimiter = ","
  /\ Len(items[1]) = 2
  /\ IsPrefix(<<"a", ",", "b", NL>>, appendCsv[1])

\* the keys of a record, in order
KeysOf(obj) == [k \in 1..Len(obj) |-> obj[k][1]]

\* the cell of a record under a column name
ExpectedCell(obj, key) ==
  IF \E j \in 1..Len(obj) : obj[j][1] = key /\ obj[j][2].t # "null"
  THEN LET j == CHOOSE j \in 1..Len(obj) : obj[j][1] = key
       IN IF obj[j][2].t = "number" THEN NumToString(obj[j][2].n) ELSE obj[j][2].s
  ELSE <<>>

\* C5: in mode byHeader, when the loop starts without a header, its first turn
\* takes the keys of the first item as the header (also when it has none), and
\* no later turn changes the header; every turn adds one row with one cell per
\* name of the header: the item's value as a string, or the empty string when
\* the key is missing or null.
C5_HeaderFromFirstRecord ==
  [][\A p \in Procs :
       (pc[p] = "MAP_RECORDS" /\ i'[p] # i[p] /\ cfg.mappingMode = "byHeader")
       => /\ (i[p] = 1 /\ headerRow[p] = NoHeader)
             => headerRow'[p] = Some(KeysOf(items[p][1]))
          /\ i[p] > 1 => headerRow[p] # NoHeader /\ headerRow'[p] = headerRow[p]
          /\ (i[p] > 1 /\ (dlLinkResp[p] = "null" \/ ~cfg.hasHeader \/ currentCsv[p] = <<>>))
             => headerRow'[p] = Some(KeysOf(items[p][1]))
          /\ rows'[p] = Append(rows[p],
                               [k \in 1..Len(headerRow'[p][1]) |->
                                  ExpectedCell(items[p][i[p]], headerRow'[p][1][k])])]_vars

C5_Witness ==
  /\ pc[1] = "COMPOSE" /\ cfg.mappingMode = "byHeader"
  /\ dlLinkResp[1] = "null"
  /\ Len(items[1]) = 2
  /\ KeysOf(items[1][1]) = <<KeyA, KeyB>> /\ KeysOf(items[1][2]) = <<KeyA>>
  /\ headerRow[1] = Some(<<KeyA, KeyB>>)
  /\ rows[1][2] = << <<"x">>, <<>> >>

C7_AuthOnEveryCall ==
  \A n \in 1..Len(calls) : calls[n].auth = "OAuth " \o cfg.token

\* C7 amended: the two requests to the disk API (download resolution and upload
\* resolution) carry Authorization: OAuth <token>; the GET of the download href
\* and the PUT to the upload href carry no Authorization header.
C7_AuthOnApiCalls ==
  \A n \in 1..Len(calls) :
    /\ calls[n].kind \in {"RESOLVE_DOWNLOAD", "RESOLVE_UPLOAD"}
       => calls[n].auth = "OAuth " \o cfg.token
    /\ calls[n].kind \in {"FETCH_CONTENT", "UPLOAD"} => calls[n].auth = NoAuth

C7_Witness ==
  /\ KindsOf(1) = <<"RESOLVE_DOWNLOAD", "FETCH_CONTENT", "RESOLVE_UPLOAD", "UPLOAD">>
  /\ cfg.token = "t2"

\* the place of a step in the linear flow
Rank(step) ==
  CASE step \in {"IDLE", "START"} -> 0
    [] step = "FETCH_CONTENT" -> 1
    [] step = "MAP_RECORDS" -> 2
    [] step = "COMPOSE" -> 3
    [] step = "RESOLVE_UPLOAD" -> 4
    [] step = "UPLOAD" -> 5
    [] OTHER -> 6

\* the invocation has a next step to take
CanStep(p) ==
  ENABLED (\/ ResolveDownload(p) \/ FetchContent(p) \/ MapRecord(p)
           \/ ComposeMerge(p) \/ ResolveUpload(p) \/ Upload(p))

\* the requests of an invocation are a start of one of the two full sequences,
\* each sent after the one before it succeeded; an invocation that has not
\* ended DONE or FAILED has a next step
C8_CallOrder ==
  \A p \in Procs :
    LET cs == CallsOf(p) IN
    /\ \/ IsPrefix(KindsOf(p),
                   <<"RESOLVE_DOWNLOAD", "FETCH_CONTENT", "RESOLVE_UPLOAD", "UPLOAD">>)
       \/ IsPrefix(KindsOf(p), <<"RESOLVE_DOWNLOAD", "RESOLVE_UPLOAD", "UPLOAD">>)
    /\ \A n \in 1..(Len(cs) - 1) : Succeeded(cs[n]) \/ Tolerated(cs[n])
    /\ Issued(p, "FETCH_CONTENT") => cs[1].status = 200 /\ dlLinkResp[p] = "href"
    /\ (Len(cs) >= 2 /\ cs[2].kind = "RESOLVE_UPLOAD") => Tolerated(cs[1])
    /\ Issued(p, "RESOLVE_UPLOAD")
       => /\ Len(rows[p]) = Len(items[p])
          /\ IsPrefix(currentCsv[p], finalCsv[p])
          /\ finalCsv[p] # currentCsv[p] => appendCsv[p] # <<>>
    /\ pc[p] \notin {"IDLE", "DONE", "FAILED"} => CanStep(p)

\* C8: the requests of an invocation go out in the order resolve-download,
\* fetch-content, resolve-upload, upload, each at most once and only after the
\* one before it succeeded; the content is fetched only when download
\* resolution gave a href, upload resolution comes after the mapping and the
\* merge; every step moves the invocation forward in the flow, which stops
\* only in DONE or FAILED, and nothing is sent from there.
C8_LinearFlow ==
  /\ []C8_CallOrder
  /\ [][\A p \in Procs :
          /\ pc'[p] # pc[p] => Rank(pc'[p]) > Rank(pc[p])
          /\ CallsOf(p)' # CallsOf(p) => pc'[p] # pc[p]
          /\ pc[p] \in {"DONE", "FAILED"} => pc'[p] = pc[p] /\ CallsOf(p)' = CallsOf(p)]_vars

C8_Witness ==
  /\ pc[1] = "DONE" /\ ~prior.exists
  /\ KindsOf(1) = <<"RESOLVE_DOWNLOAD", "RESOLVE_UPLOAD", "UPLOAD">>
  /\ Len(items[1]) > 0

\* the invocation whose PUT came last
LastWriter == calls[Len(calls)].p

\* all requests of p came before the first request of q
Before(p, q) ==
  \A n, j \in 1..Len(calls) : (calls[n].p = p /\ calls[j].p = q) => n < j

\* p and q both resolved and fetched before either sent its PUT
BothReadFirst ==
  \A n, j \in 1..Len(calls) :
    (calls[n].kind \in {"RESOLVE_DOWNLOAD", "FETCH_CONTENT"} /\ calls[j].kind = "UPLOAD")
    => n < j

\* the prior content, terminated when it is not empty
Base == IF prior.content = <<>> THEN <<>> ELSE Joined(prior.content, <<>>)

BothDone == \A p \in Procs : pc[p] = "DONE"

\* C9: when both invocations complete, the file is the body of the last PUT;
\* if both read the file before either PUT, it is the prior content plus the
\* fragment of the last writer only; if one invocation ended before the other
\* began, it is the prior content plus the fragments of both, in that order.
C9_LastUploadWins ==
  BothDone
  => /\ remote = File(calls[Len(calls)].body)
     /\ BothReadFirst
        => /\ \A p \in Procs : currentCsv[p] = prior.content
           /\ remote.content = Base \o appendCsv[LastWriter]
           /\ appendCsv[LastWriter] \in
                { stringify(rows[LastWriter], cfg.delimiter),
                  stringify(<<HeaderFor(LastWriter)>>, cfg.delimiter)
                    \o stringify(rows[LastWriter], cfg.delimiter) }
     /\ \A p, q \in Procs :
          (p # q /\ Before(p, q))
          => /\ remote.content = Base \o appendCsv[p] \o appendCsv[q]
             /\ appendCsv[q] = stringify(rows[q], cfg.delimiter)
             /\ IsPrefix(stringify(rows[p], cfg.delimiter),
                         SubSeq(appendCsv[p],
                                Len(appendCsv[p]) - Len(stringify(rows[p], cfg.delimiter)) + 1,
                                Len(appendCsv[p])))

\* both read the same prior content, both completed, the rows of invocation 1 are lost
C9_Witness ==
  /\ BothDone /\ BothReadFirst /\ LastWriter = 2
  /\ prior.exists /\ prior.content # <<>>
  /\ currentCsv[1] = prior.content /\ currentCsv[2] = prior.content
  /\ \E n \in 1..Len(calls) : calls[n].p = 1 /\ calls[n].kind = "UPLOAD" /\ calls[n].status = 201
  /\ rows[1] # <<>> /\ rows[1] # rows[2]
  /\ remote.content = Base \o stringify(rows[2], cfg.delimiter)

\* C10: with no input item and a non-empty existing file, a completed
\* invocation has sent resolve-upload and the PUT, the PUT body is the fetched
\* content unchanged (no terminator, no header row), and the file is as it was.
C10_NoItemsNoChange ==
  \A p \in Procs :
    (items[p] = <<>> /\ currentCsv[p] # <<>>)
    => /\ \A n \in 1..Len(calls) :
            (calls[n].p = p /\ calls[n].kind = "UPLOAD") => calls[n].body = currentCsv[p]
       /\ Mapped(p) => appendCsv[p] = <<>> /\ finalCsv[p] = currentCsv[p]
       /\ pc[p] = "DONE"
          => /\ KindsOf(p) = <<"RESOLVE_DOWNLOAD", "FETCH_CONTENT", "RESOLVE_UPLOAD", "UPLOAD">>
             /\ remote = prior

C10_Witness ==
  /\ pc[1] = "DONE" /\ items[1] = <<>>
  /\ prior.exists /\ prior.content # <<>> /\ prior.content[Len(prior.content)] # NL
  /\ remote = prior /\ Issued(1, "UPLOAD")

====
